---- MODULE Spec2Model ----
(***************************************************************************)
(* A model of src/core/virtual_memory.cpp (namespace VirtualMemory): the   *)
(* protection-mode codec, memory_alloc, memory_protect, memory_flush,      *)
(* memory_patch, AlignUp and memory_alloc_aligned, for the three builds    *)
(* the preprocessor selects (_WIN64, POSIX, POSIX on __APPLE__ aarch64).   *)
(* The operating system is the environment: each native call is modelled   *)
(* by the set of outcomes the OS may produce.                              *)
(***************************************************************************)
EXTENDS Integers, FiniteSets, Sequences, TLC

VARIABLES
    platform,   \* which branch of the #ifdefs the build took
    prot,       \* OS page table: mapped page base address -> native protection
    mem,        \* the 8-byte word at the base of every page of the model
    halted,     \* TRUE once ASSERT failed or a fault ended the process
    last,       \* arguments and results of the most recent completed call
    threads,    \* the threads that call memory_patch
    pc,         \* per thread: the line of memory_patch it is about to execute
    wp,         \* per thread: pthread_jit_write_protect_np state (TRUE = enforced)
    call        \* per thread: locals of its current / most recent memory_patch

vars == <<platform, prot, mem, halted, last, threads, pc, wp, call>>

(***************************************************************************)
(* Widths and bounds.  u64 is modelled as an AddrBits-bit unsigned word.   *)
(***************************************************************************)
AddrBits == 24
MaxValue == 1

Pow2(n) == 2 ^ n
Modulus == Pow2(AddrBits)
MAXU == Modulus - 1
Wrap(x) == x % Modulus

RECURSIVE BitAndN(_, _, _)
BitAndN(a, b, n) ==
    IF n = 0 THEN 0
    ELSE (a % 2) * (b % 2) + 2 * BitAndN(a \div 2, b \div 2, n - 1)
BitAnd(a, b) == BitAndN(a, b, AddrBits)
BitNot(a) == MAXU - a

Platforms == {"windows", "linux", "macos_arm64"}
IsWin == platform = "windows"
IsAppleArm == platform = "macos_arm64"

(***************************************************************************)
(* Native protection constants.  <sys/mman.h> bits on POSIX (the           *)
(* PosixPageProtection enum), <windows.h> values on _WIN64.                *)
(***************************************************************************)
PROT_READ == 1
PROT_WRITE == 2
PROT_EXEC == 4

PAGE_NOACCESS == IF IsWin THEN 1 ELSE 0
PAGE_READONLY == IF IsWin THEN 2 ELSE PROT_READ
PAGE_READWRITE == IF IsWin THEN 4 ELSE PROT_READ + PROT_WRITE
PAGE_EXECUTE == IF IsWin THEN 16 ELSE PROT_EXEC
PAGE_EXECUTE_READ == IF IsWin THEN 32 ELSE PROT_EXEC + PROT_READ
PAGE_EXECUTE_READWRITE == IF IsWin THEN 64 ELSE PROT_EXEC + PROT_READ + PROT_WRITE

NativeValues ==
    {PAGE_NOACCESS, PAGE_READONLY, PAGE_READWRITE,
     PAGE_EXECUTE, PAGE_EXECUTE_READ, PAGE_EXECUTE_READWRITE}

(***************************************************************************)
(* enum class MemoryMode (core/virtual_memory.h).                          *)
(***************************************************************************)
MemoryMode ==
    {"NoAccess", "Read", "Write", "ReadWrite",
     "Execute", "ExecuteRead", "ExecuteWrite", "ExecuteReadWrite"}

\* MemoryMode{}: the enumerator whose value is 0.
ZeroMode == "NoAccess"

containsExecuteMode(mode) ==
    mode \in {"Execute", "ExecuteRead", "ExecuteWrite", "ExecuteReadWrite"}

\* static u32 convertMemoryMode(MemoryMode mode)
convertMemoryMode(mode) ==
    CASE mode = "Read" -> PAGE_READONLY
      [] mode \in {"Write", "ReadWrite"} -> PAGE_READWRITE
      [] mode = "Execute" -> PAGE_EXECUTE
      [] mode = "ExecuteRead" -> PAGE_EXECUTE_READ
      [] mode \in {"ExecuteWrite", "ExecuteReadWrite"} -> PAGE_EXECUTE_READWRITE
      [] mode = "NoAccess" -> PAGE_NOACCESS
      [] OTHER -> PAGE_NOACCESS

\* A decoder that lost the PAGE_EXECUTE_READ case.
convertMemoryMode_u32_NoExecRead(mode) ==
    CASE mode = PAGE_NOACCESS -> "NoAccess"
      [] mode = PAGE_READONLY -> "Read"
      [] mode = PAGE_READWRITE -> "ReadWrite"
      [] mode = PAGE_EXECUTE -> "Execute"
      [] mode = PAGE_EXECUTE_READWRITE -> "ExecuteReadWrite"
      [] OTHER -> "NoAccess"

\* static MemoryMode convertMemoryMode(u32 mode)
convertMemoryMode_u32(mode) ==
    CASE mode = PAGE_NOACCESS -> "NoAccess"
      [] mode = PAGE_READONLY -> "Read"
      [] mode = PAGE_READWRITE -> "ReadWrite"
      [] mode = PAGE_EXECUTE -> "Execute"
      [] mode = PAGE_EXECUTE_READ -> "ExecuteRead"
      [] mode = PAGE_EXECUTE_READWRITE -> "ExecuteReadWrite"
      [] OTHER -> "NoAccess"

(***************************************************************************)
(* The address space of the model.  USER_MIN / USER_MAX are the constants  *)
(* of core/virtual_memory.h, scaled from 40 to AddrBits-bit addresses.     *)
(***************************************************************************)
PageSize == Pow2(12)
AllocGranularity == Pow2(16)
USER_MIN == Pow2(20)
USER_MAX == 252 * Pow2(16) - 1
MAP_FAILED == MAXU

\* The pages the OS can hand out: one 64K-aligned, its neighbour (page-aligned
\* only) and one 2M-aligned.
Frames == {USER_MIN, USER_MIN + PageSize, 2 * USER_MIN}
Sizes == {PageSize, 2 * PageSize}
Values == 0 .. MaxValue

PageBase(address) == (address \div PageSize) * PageSize
PagesOf(address, size) ==
    {PageBase(address) + k * PageSize :
        k \in 0 .. ((address + size - 1) \div PageSize - address \div PageSize)}
Mapped(pages) == pages \subseteq DOMAIN prot
Free(pages) == pages \subseteq Frames /\ pages \cap DOMAIN prot = {}
MapPages(pages, native) ==
    [p \in DOMAIN prot \cup pages |-> IF p \in pages THEN native ELSE prot[p]]
IsPow2(a) == a > 0 /\ BitAnd(a, a - 1) = 0

(***************************************************************************)
(* Native calls: the set of pointers each may return in the current state. *)
(* Every allocation may also fail (out of memory).                         *)
(***************************************************************************)
\* VirtualAlloc(address, size, MEM_COMMIT | MEM_RESERVE, protect)
VirtualAlloc(address, size) ==
    LET base == (address \div AllocGranularity) * AllocGranularity
        cands == IF address = 0
                 THEN {f \in Frames : f % AllocGranularity = 0}
                 ELSE {base}
    IN {f \in cands : Free(PagesOf(f, size))} \cup {0}

\* mmap(hint, size, prot, MAP_ANONYMOUS | MAP_PRIVATE, -1, 0): without MAP_FIXED
\* the hint does not bind the kernel.
mmap(hint, size) ==
    {f \in Frames : Free(PagesOf(f, size))} \cup {MAP_FAILED}

\* VirtualAlloc2 with MEM_ADDRESS_REQUIREMENTS {lowest, highest, alignment}
VirtualAlloc2(lowest, highest, alignment, size) ==
    IF \/ alignment # 0 /\ (~IsPow2(alignment) \/ alignment < AllocGranularity)
       \/ lowest % AllocGranularity # 0
    THEN {0}
    ELSE {f \in Frames :
            /\ Free(PagesOf(f, size))
            /\ f >= lowest
            /\ f + size - 1 <= highest
            /\ f % AllocGranularity = 0
            /\ (alignment # 0 => f % alignment = 0)} \cup {0}

\* ASSERT(cond) of common/assert.h: execution continues iff cond holds;
\* otherwise the process halts.
ASSERT(cond) == cond

(***************************************************************************)
(* memory_alloc                                                            *)
(***************************************************************************)
memory_alloc(address, size, mode) ==
    /\ ~halted
    /\ \E ptr \in (IF IsWin THEN VirtualAlloc(address, size) ELSE mmap(address, size)) :
        LET ok == IF IsWin THEN ptr # 0 ELSE ptr # MAP_FAILED
            native == IF IsWin THEN convertMemoryMode(mode)
                      ELSE PROT_EXEC + PROT_READ + PROT_WRITE
        IN /\ prot' = IF ok THEN MapPages(PagesOf(ptr, size), native) ELSE prot
           /\ last' = [op |-> "memory_alloc", address |-> address, size |-> size,
                       mode |-> mode, native_ok |-> ok, logged |-> ~ok,
                       ret |-> ptr]
    /\ UNCHANGED <<platform, mem, halted, threads, pc, wp, call>>

(***************************************************************************)
(* memory_protect.  old_in is the caller's *old_mode before the call, or   *)
(* "null" when old_mode == nullptr.                                        *)
(***************************************************************************)
\* What the function does once the native call has failed, with ASSERT
\* compiled out on POSIX.
protect_failure_NoAssert(old_in) ==
    IF IsWin
    THEN [returned |-> TRUE, ret |-> FALSE, old |-> old_in, logged |-> TRUE]
    ELSE [returned |-> TRUE, ret |-> TRUE, old |-> old_in, logged |-> FALSE]

\* What the function does once the native call has failed.
protect_failure(old_in) ==
    IF IsWin
    THEN [returned |-> TRUE, ret |-> FALSE, old |-> old_in, logged |-> TRUE]
    ELSE [returned |-> ASSERT(FALSE), ret |-> FALSE, old |-> old_in, logged |-> FALSE]

\* What the function does once the native call has succeeded; old_protect is
\* the protection the first page had.
protect_success(old_in, old_protect) ==
    [returned |-> TRUE, ret |-> TRUE, logged |-> FALSE,
     old |-> IF IsWin /\ old_in # "null"
             THEN convertMemoryMode_u32(old_protect) ELSE old_in]

memory_protect(address, size, mode, old_in) ==
    /\ ~halted
    /\ LET pages == PagesOf(address, size)
           ok == Mapped(pages)
           prev == IF ok THEN prot[PageBase(address)] ELSE 0
           out == IF ok THEN protect_success(old_in, prev)
                  ELSE protect_failure(old_in)
       IN /\ prot' = IF ok THEN MapPages(pages, convertMemoryMode(mode)) ELSE prot
          /\ halted' = ~out.returned
          /\ last' = [op |-> "memory_protect", address |-> address, size |-> size,
                      mode |-> mode, old_in |-> old_in, native_ok |-> ok,
                      prev |-> prev, returned |-> out.returned, ret |-> out.ret,
                      old |-> out.old, logged |-> out.logged]
    /\ UNCHANGED <<platform, mem, threads, pc, wp, call>>

(***************************************************************************)
(* memory_flush                                                            *)
(***************************************************************************)
memory_flush(address, size) ==
    /\ ~halted
    /\ \E native_ok \in (IF IsWin THEN BOOLEAN ELSE {TRUE}) :
        last' = [op |-> "memory_flush", address |-> address, size |-> size,
                 ret |-> native_ok, logged |-> ~native_ok]
    /\ UNCHANGED <<platform, prot, mem, halted, threads, pc, wp, call>>

(***************************************************************************)
(* AlignUp and memory_alloc_aligned                                        *)
(***************************************************************************)
\* An AlignUp that masks with ~align instead of ~(align - 1).
AlignUp_WrongMask(pos, align) ==
    IF align # 0 THEN BitAnd(Wrap(pos + (align - 1)), BitNot(align)) ELSE pos

AlignUp(pos, align) ==
    IF align # 0 THEN BitAnd(Wrap(pos + (align - 1)), BitNot(align - 1)) ELSE pos

\* req.LowestStartingAddress / hint_address
LowestStartingAddress(address, alignment) ==
    IF address = 0 THEN USER_MIN ELSE AlignUp(address, alignment)

memory_alloc_aligned(address, size, mode, alignment) ==
    /\ ~halted
    /\ LET lower == LowestStartingAddress(address, alignment)
       IN \E ptr \in (IF IsWin THEN VirtualAlloc2(lower, USER_MAX, alignment, size)
                      ELSE mmap(lower, size)) :
            LET ok == IF IsWin THEN ptr # 0 ELSE ptr # MAP_FAILED
            IN /\ prot' = IF ok THEN MapPages(PagesOf(ptr, size), convertMemoryMode(mode))
                          ELSE prot
               /\ halted' = (~IsWin /\ ~ASSERT(ok))
               /\ last' = [op |-> "memory_alloc_aligned", address |-> address,
                           size |-> size, mode |-> mode, alignment |-> alignment,
                           lower |-> lower, native_ok |-> ok,
                           returned |-> (IsWin \/ ASSERT(ok)), logged |-> (IsWin /\ ~ok),
                           ret |-> ptr]
    /\ UNCHANGED <<platform, mem, threads, pc, wp, call>>

(***************************************************************************)
(* The single-caller specification of the allocator and the protector.     *)
(***************************************************************************)
Threads == {"t1", "t2"}
NoCall == [op |-> "none"]

Hints == {0, USER_MIN + PageSize}
CallModes == {"NoAccess", "Write", "ExecuteRead"}
OldIn == {"null", "Read"}

InitCommon ==
    /\ platform \in Platforms
    /\ mem = [f \in Frames |-> 0]
    /\ halted = FALSE
    /\ last = NoCall
    /\ pc = [t \in Threads |-> "idle"]
    /\ wp = [t \in Threads |-> TRUE]
    /\ call = [t \in Threads |-> NoCall]

InitMem ==
    /\ InitCommon
    /\ prot = << >>
    /\ threads = {}

NextMem ==
    \/ \E address \in Hints, size \in Sizes, mode \in CallModes :
        memory_alloc(address, size, mode)
    \/ \E address \in Frames, size \in Sizes, mode \in CallModes, old_in \in OldIn :
        memory_protect(address, size, mode, old_in)
    \/ \E address \in Frames, size \in Sizes :
        memory_flush(address, size)

SpecMem == InitMem /\ [][NextMem]_vars

(***************************************************************************)
(* The specification of aligned allocation.                                *)
(***************************************************************************)
AlignedHints == {0, USER_MIN + 1, MAXU}
Alignments == {0, PageSize, AllocGranularity, 2 * USER_MIN, 3 * PageSize}
AlignedModes == {"NoAccess", "ExecuteReadWrite"}

NextAligned ==
    \E address \in AlignedHints, size \in Sizes, mode \in AlignedModes,
       alignment \in Alignments :
        memory_alloc_aligned(address, size, mode, alignment)

SpecAligned == InitMem /\ [][NextAligned]_vars

(***************************************************************************)
(* The specification of the codec: encode, decode of an encoded value, and *)
(* decode of an arbitrary native value.                                    *)
(***************************************************************************)
MaxNative == 64

codec_encode(mode) ==
    /\ last' = [op |-> "encode", mode |-> mode, native |-> convertMemoryMode(mode)]
    /\ UNCHANGED <<platform, prot, mem, halted, threads, pc, wp, call>>

codec_decode ==
    /\ last.op = "encode"
    /\ last' = [op |-> "roundtrip", mode |-> last.mode, native |-> last.native,
                decoded |-> convertMemoryMode_u32(last.native)]
    /\ UNCHANGED <<platform, prot, mem, halted, threads, pc, wp, call>>

codec_decode_raw(native) ==
    /\ last' = [op |-> "decode", native |-> native,
                decoded |-> convertMemoryMode_u32(native)]
    /\ UNCHANGED <<platform, prot, mem, halted, threads, pc, wp, call>>

NextCodec ==
    \/ \E mode \in MemoryMode : codec_encode(mode)
    \/ codec_decode
    \/ \E native \in 0 .. MaxNative : codec_decode_raw(native)

SpecCodec == InitMem /\ [][NextCodec]_vars

(***************************************************************************)
(* memory_patch, one action per statement, run by each thread.             *)
(***************************************************************************)
HasRead(native) ==
    native \in {PAGE_READONLY, PAGE_READWRITE, PAGE_EXECUTE_READ, PAGE_EXECUTE_READWRITE}
HasWrite(native) == native \in {PAGE_READWRITE, PAGE_EXECUTE_READWRITE}
Readable(vaddr) == vaddr \in DOMAIN prot /\ HasRead(prot[vaddr])
Writable(vaddr) == vaddr \in DOMAIN prot /\ HasWrite(prot[vaddr])

Running(t, line) == ~halted /\ t \in threads /\ pc[t] = line
Goto(t, line) == pc' = [pc EXCEPT ![t] = line]

\* lines 126-128: entry, MemoryMode old_mode{}
patch_call(t, vaddr, value) ==
    /\ Running(t, "idle")
    /\ call' = [call EXCEPT ![t] =
                 [op |-> "memory_patch", vaddr |-> vaddr, value |-> value,
                  old_mode |-> ZeroMode, ret |-> FALSE, before |-> mem,
                  flushed |-> FALSE]]
    /\ Goto(t, IF IsAppleArm THEN "L131" ELSE "L136")
    /\ UNCHANGED <<platform, prot, mem, halted, last, threads, wp>>

\* line 131: pthread_jit_write_protect_np(false)
patch_jit_disable(t) ==
    /\ Running(t, "L131")
    /\ wp' = [wp EXCEPT ![t] = FALSE]
    /\ Goto(t, "L136")
    /\ UNCHANGED <<platform, prot, mem, halted, last, threads, call>>

\* A comparison that reports equality instead of difference.
patch_compare_Inverted(t) ==
    /\ Running(t, "L136")
    /\ Readable(call[t].vaddr)
    /\ call' = [call EXCEPT ![t].ret = (mem[call[t].vaddr] = call[t].value)]
    /\ Goto(t, "L138")
    /\ UNCHANGED <<platform, prot, mem, halted, last, threads, wp>>

\* line 136: bool ret = (*ptr != value)
patch_compare(t) ==
    /\ Running(t, "L136")
    /\ Readable(call[t].vaddr)
    /\ call' = [call EXCEPT ![t].ret = (mem[call[t].vaddr] # call[t].value)]
    /\ Goto(t, "L138")
    /\ UNCHANGED <<platform, prot, mem, halted, last, threads, wp>>

\* line 138: *ptr = value
patch_store(t) ==
    /\ Running(t, "L138")
    /\ Writable(call[t].vaddr)
    /\ mem' = [mem EXCEPT ![call[t].vaddr] = call[t].value]
    /\ Goto(t, "L143")
    /\ UNCHANGED <<platform, prot, halted, last, threads, wp, call>>

\* lines 136, 138: the access faults and the process dies
patch_fault(t) ==
    /\ \/ Running(t, "L136") /\ ~Readable(call[t].vaddr)
       \/ Running(t, "L138") /\ ~Writable(call[t].vaddr)
    /\ halted' = TRUE
    /\ UNCHANGED <<platform, prot, mem, last, threads, pc, wp, call>>

\* lines 143-145: if (containsExecuteMode(old_mode)) memory_flush(vaddr, 8)
patch_flush(t) ==
    /\ Running(t, "L143")
    /\ call' = [call EXCEPT ![t].flushed = containsExecuteMode(call[t].old_mode)]
    /\ Goto(t, IF IsAppleArm THEN "L148" ELSE "L151")
    /\ UNCHANGED <<platform, prot, mem, halted, last, threads, wp>>

\* line 148: pthread_jit_write_protect_np(true)
patch_jit_enable(t) ==
    /\ Running(t, "L148")
    /\ wp' = [wp EXCEPT ![t] = TRUE]
    /\ Goto(t, "L151")
    /\ UNCHANGED <<platform, prot, mem, halted, last, threads, call>>

\* line 151: return ret; the locals die with the frame
patch_return(t) ==
    /\ Running(t, "L151")
    /\ call' = [call EXCEPT ![t] = NoCall]
    /\ Goto(t, "idle")
    /\ UNCHANGED <<platform, prot, mem, halted, last, threads, wp>>

\* The regions are those earlier memory_alloc / memory_protect calls left; the
\* third page of the model is never mapped.
PatchFrames == {USER_MIN, 2 * USER_MIN}

\* Two patching threads: a page of any protection and a read-write page.
InitPatch ==
    /\ InitCommon
    /\ prot \in {f \in [PatchFrames -> NativeValues] : f[2 * USER_MIN] = PAGE_READWRITE}
    /\ threads = Threads

\* One patching thread: two pages of any protection.
InitPatchOne ==
    /\ InitCommon
    /\ prot \in [PatchFrames -> NativeValues]
    /\ threads = {"t1"}

NextPatch ==
    \E t \in Threads :
        \/ \E vaddr \in Frames, value \in Values : patch_call(t, vaddr, value)
        \/ patch_jit_disable(t)
        \/ patch_compare(t)
        \/ patch_store(t)
        \/ patch_fault(t)
        \/ patch_flush(t)
        \/ patch_jit_enable(t)
        \/ patch_return(t)

SpecPatch == InitPatch /\ [][NextPatch]_vars

SpecPatchOne == InitPatchOne /\ [][NextPatch]_vars

(***************************************************************************)
(* Properties.                                                             *)
(***************************************************************************)
ClassRep(m) ==
    CASE m = "Write" -> "ReadWrite"
      [] m = "ExecuteWrite" -> "ExecuteReadWrite"
      [] OTHER -> m

\* C1: decoding the encoding of a mode gives the representative of its class:
\* Write -> ReadWrite, ExecuteWrite -> ExecuteReadWrite, every other mode itself.
C1_RoundTrip ==
    last.op = "roundtrip" => last.decoded = ClassRep(last.mode)

C1_Witness ==
    /\ last.op = "roundtrip"
    /\ last.mode = "ExecuteWrite"
    /\ last.decoded = "ExecuteReadWrite"

\* C2: a successful memory_protect that was given old_mode leaves in it the
\* decode of the protection the range had immediately before the call.
C2_OldModeIsPrevious ==
    (last.op = "memory_protect" /\ last.returned /\ last.ret /\ last.old_in # "null")
        => last.old = convertMemoryMode_u32(last.prev)

\* C3: with one patching thread (SpecPatchOne), memory_patch returns whether the word differed
\* from the new value on entry, the word holds the new value when it returns,
\* and nothing else changed (so a call returning false changed nothing).
C3_PatchResult ==
    pc["t1"] = "L151" =>
        LET c == call["t1"]
        IN /\ c.ret = (c.before[c.vaddr] # c.value)
           /\ mem = [c.before EXCEPT ![c.vaddr] = c.value]
           /\ (~c.ret => mem = c.before)

C3_Witness ==
    /\ pc["t1"] = "L151"
    /\ ~call["t1"].ret
    /\ call["t1"].value = 1
    /\ mem[call["t1"].vaddr] = 1

\* C4: the pages a successful memory_alloc created carry the encoding of the
\* requested mode.
C4_CreationProtection ==
    (last.op = "memory_alloc" /\ last.native_ok) =>
        \A p \in PagesOf(last.ret, last.size) : prot[p] = convertMemoryMode(last.mode)

\* C5: the address a successful memory_alloc_aligned returns is a multiple of
\* the alignment, for alignments 4096, 65536 and 2 MiB.
C5_ResultAligned ==
    (/\ last.op = "memory_alloc_aligned"
     /\ last.native_ok
     /\ last.alignment \in {PageSize, AllocGranularity, 2 * USER_MIN})
        => last.ret % last.alignment = 0

\* C6: when the native allocation fails, memory_alloc logs the error, does not
\* halt, and returns 0.
C6_FailureReturnsZero ==
    (last.op = "memory_alloc" /\ ~last.native_ok) =>
        /\ last.ret = 0
        /\ last.logged
        /\ ~halted

\* C7: when the native protection change fails, memory_protect returns false on
\* Windows leaving old_mode untouched, and halts on POSIX; it never returns
\* false on POSIX and never returns true after a failed native call.
C7_ProtectFailure ==
    last.op = "memory_protect" =>
        /\ (~last.native_ok /\ IsWin) =>
                (last.returned /\ ~last.ret /\ last.old = last.old_in /\ ~halted)
        /\ (~last.native_ok /\ ~IsWin) => (~last.returned /\ halted)
        /\ (~IsWin /\ last.returned) => last.ret
        /\ (last.returned /\ last.ret) => last.native_ok

C7_Witness ==
    /\ last.op = "memory_protect"
    /\ ~last.native_ok
    /\ ~IsWin
    /\ last.old_in # "null"
    /\ halted

\* C8: once memory_patch has stored, it has flushed the word exactly when the
\* protection of the word's page includes execute permission.
C8_FlushIffExecutable ==
    \A t \in threads :
        pc[t] \in {"L148", "L151"} =>
            (call[t].flushed <=>
                containsExecuteMode(convertMemoryMode_u32(prot[call[t].vaddr])))

\* C9: a thread's write-protect enforcement is off only from just before the
\* store to just after it (the thread is at the store or at the re-enable that
\* follows it at once), it is on again when memory_patch returns, and a thread
\* outside memory_patch always has it on whatever the other threads do.
C9_BracketsOnlyTheStore ==
    \A t \in Threads :
        /\ ~wp[t] => pc[t] \in {"L138", "L148"}
        /\ pc[t] \in {"idle", "L151"} => wp[t]

LeastMultipleAtLeast(pos, align) == ((pos + align - 1) \div align) * align

\* C10 (as stated): the lower search bound is USER_MIN for a zero hint, the
\* hint for a zero alignment, and otherwise the least multiple of the alignment
\* that is >= the hint, for every non-zero hint and alignment.
C10_LowerBoundAnyAlignment ==
    last.op = "memory_alloc_aligned" =>
        last.lower = IF last.address = 0 THEN USER_MIN
                     ELSE IF last.alignment = 0 THEN last.address
                     ELSE LeastMultipleAtLeast(last.address, last.alignment)

\* C10 (amended): the same, for alignments that are powers of two and hints
\* for which hint + alignment - 1 does not exceed the largest u64.
C10_LowerBoundPow2 ==
    last.op = "memory_alloc_aligned" =>
        IF last.address = 0 THEN last.lower = USER_MIN
        ELSE IF last.alignment = 0 THEN last.lower = last.address
        ELSE (IsPow2(last.alignment) /\ last.address + last.alignment - 1 <= MAXU)
                => last.lower = LeastMultipleAtLeast(last.address, last.alignment)

C10_Witness ==
    /\ last.op = "memory_alloc_aligned"
    /\ last.address = USER_MIN + 1
    /\ last.alignment = AllocGranularity
    /\ last.lower = USER_MIN + AllocGranularity

====
